---- MODULE Spec2Model ----
(***************************************************************************)
(* FileMover (apps/gui): the browser-side services                         *)
(*   FileScanner, PlanGenerator, FileExecutor (services/fileScanner.ts)    *)
(*   SessionManager (services/sessionManager.ts)                           *)
(* as state machines.  Strings are TLA+ strings (sequences of characters); *)
(* a JavaScript `undefined` string is the empty string, which the code     *)
(* treats alike in every test it makes (`x && ...`, `x || y`).             *)
(* Folder sizes are kept in KiB (every size of the source is a multiple of *)
(* 1024 bytes).  One action is one JavaScript task: the synchronous run of *)
(* a call up to its first timer, or a timer firing and everything that     *)
(* runs before the next timer is awaited.                                  *)
(***************************************************************************)
EXTENDS Integers, Sequences, FiniteSets, TLC

(***************************************************************************)
(* Bounds of the model.                                                    *)
(***************************************************************************)
\* roots of one scan (the list may repeat a root)
MaxRoots == 2
\* Math.random() draws of a scan-and-plan run that fall below their threshold
MaxRandomEvents == 1
\* files of a directory beyond the 5 the executor always simulates
MaxExtraFiles == 1
\* calls of SessionManager.startExecution on the one execution session
MaxStarts == 2
\* the most rules a user adds on SetupPage (addRule)
MaxRuleAdds == 4
\* the most edits of rules a user makes on SetupPage (updateRule)
MaxRuleEdits == 2
\* the most roots a user adds on SetupPage (addRoot)
MaxSetupRoots == 1
\* the most plan sessions made from one scan (createPlanSession)
MaxPlanSessions == 2
\* the most start operations that reject in one run
MaxRejections == 1

(***************************************************************************)
(* JavaScript string functions.                                            *)
(***************************************************************************)
Ch(s, i) == SubSeq(s, i, i)

UpperAlphabet == "ABCDEFGHIJKLMNOPQRSTUVWXYZ"
LowerAlphabet == "abcdefghijklmnopqrstuvwxyz"

UpperLetters == {Ch(UpperAlphabet, i) : i \in 1..26}
LowerLetters == {Ch(LowerAlphabet, i) : i \in 1..26}

IsLetter(c) == c \in UpperLetters \/ c \in LowerLetters

\* the lower-case letter of each upper-case letter
LowerOf ==
    [c \in UpperLetters |->
        Ch(LowerAlphabet, CHOOSE i \in 1..26 : Ch(UpperAlphabet, i) = c)]

LowerCh(c) == IF c \in UpperLetters THEN LowerOf[c] ELSE c

\* the lower-case characters of s from position i on
RECURSIVE LowerFrom(_, _)
LowerFrom(s, i) ==
    IF i > Len(s) THEN "" ELSE LowerCh(Ch(s, i)) \o LowerFrom(s, i + 1)

\* s.toLowerCase(); s is bound as a value, to be computed once
ToLowerCase(s) == CHOOSE lower \in {LowerFrom(v, 1) : v \in {s}} : TRUE

\* s.includes(t)
Includes(s, t) ==
    \E v \in {s} : \E i \in 0..(Len(v) - Len(t)) : SubSeq(v, i + 1, i + Len(t)) = t

\* s.indexOf(t): 0-based, -1 when absent
IndexOf(s, t) ==
    IF Includes(s, t)
    THEN CHOOSE i \in 0..(Len(s) - Len(t)) :
            /\ SubSeq(s, i + 1, i + Len(t)) = t
            /\ \A j \in 0..(i - 1) : SubSeq(s, j + 1, j + Len(t)) # t
    ELSE -1

\* s.lastIndexOf(t): 0-based, -1 when absent
LastIndexOf(s, t) ==
    IF Includes(s, t)
    THEN CHOOSE i \in 0..(Len(s) - Len(t)) :
            /\ SubSeq(s, i + 1, i + Len(t)) = t
            /\ \A j \in (i + 1)..(Len(s) - Len(t)) : SubSeq(s, j + 1, j + Len(t)) # t
    ELSE -1

\* s.substring(0, n) for n >= -1 (a negative end is taken as 0)
Substring0(s, n) == SubSeq(s, 1, n)

\* s.replace(token, value) with a string token: the first occurrence only
Replace(s, token, value) ==
    LET i == IndexOf(s, token)
    IN  IF i = -1 THEN s
        ELSE SubSeq(s, 1, i) \o value \o SubSeq(s, i + Len(token) + 1, Len(s))

\* s.split(sep)[0]
SplitFirst(s, sep) ==
    LET i == IndexOf(s, sep) IN IF i = -1 THEN s ELSE SubSeq(s, 1, i)

\* s.split(sep).pop()
SplitLast(s, sep) ==
    LET i == LastIndexOf(s, sep)
    IN  IF i = -1 THEN s ELSE SubSeq(s, i + Len(sep) + 1, Len(s))

StartsWith(s, t) == Len(t) <= Len(s) /\ SubSeq(s, 1, Len(t)) = t

Digits == "0123456789"

\* (n).toString() for n >= 0
RECURSIVE NumStr(_)
NumStr(n) ==
    IF n < 10 THEN Ch(Digits, n + 1)
    ELSE NumStr(n \div 10) \o Ch(Digits, (n % 10) + 1)

RECURSIVE PadStart(_, _, _)
PadStart(s, n, c) == IF Len(s) >= n THEN s ELSE PadStart(c \o s, n, c)

(***************************************************************************)
(* Random draws.  A task that calls Math.random() draws every value at     *)
(* once: `fired` is the set of draws that fall below their threshold, each *)
(* named by the index of the item it is drawn for and by its kind.         *)
(***************************************************************************)
RECURSIVE SubsetsUpTo(_, _)
SubsetsUpTo(S, k) ==
    IF k = 0 THEN {{}}
    ELSE LET smaller == SubsetsUpTo(S, k - 1)
         IN  smaller \cup {s \cup {e} : s \in smaller, e \in S}

ScanDrawKinds == {"Junction", "CrossVolume"}
PlanDrawKinds == {"NameExists", "NoSpace", "KindNameExists", "KindNoSpace", "ManyFiles"}

\* the draws of a task over items 1..n, when `used` draws of the run fell
\* below their threshold before: at most MaxRandomEvents do in the whole run,
\* and no item draws both warnings (the code pushes one)
Draws(n, kinds, used) ==
    {f \in SubsetsUpTo((1..n) \X kinds,
                       IF used >= MaxRandomEvents THEN 0 ELSE MaxRandomEvents - used) :
        \A j \in 1..n : ~(<<j, "Junction">> \in f /\ <<j, "CrossVolume">> \in f)}

(***************************************************************************)
(* FileScanner.                                                            *)
(***************************************************************************)
\* the date parts generateDestinationPath reads from new Date(), as
\* toString() gives them
CurrentYear == "2026"
CurrentMonth == "11"
CurrentDay == "4"

Folder(path, name, size) == [path |-> path, name |-> name, size |-> size]

GenerateRealisticFolders(root) ==
    LET baseName ==
            IF SplitLast(root, "\\") # "" THEN SplitLast(root, "\\")
            ELSE IF SplitLast(root, "/") # "" THEN SplitLast(root, "/")
            ELSE "root"
    IN  IF Includes(ToLowerCase(root), "documents")
        THEN << Folder(root \o "\\Photos\\Vacation2024", "Vacation2024", 1024 * 85),
                Folder(root \o "\\Projects\\WebApp", "WebApp", 1024 * 45),
                Folder(root \o "\\Old Files\\Archive", "Archive", 1024 * 156) >>
        ELSE IF Includes(ToLowerCase(root), "downloads")
        THEN << Folder(root \o "\\Software\\Installers", "Installers", 1024 * 234),
                Folder(root \o "\\Videos\\Movies", "Movies", 1024 * 2560),
                Folder(root \o "\\Documents\\PDFs", "PDFs", 1024 * 67) >>
        ELSE << Folder(root \o "\\" \o baseName \o "_backup", baseName \o "_backup", 1024 * 123),
                Folder(root \o "\\temp\\cache", "cache", 1024 * 34),
                Folder(root \o "\\media\\images", "images", 1024 * 78) >>

\* matchGlob: the pattern's regex metacharacters are escaped, then * becomes
\* .* and ? becomes . , and the whole text must match
RECURSIVE MatchGlob(_, _)
MatchGlob(text, pattern) ==
    IF pattern = "" THEN text = ""
    ELSE IF Ch(pattern, 1) = "*"
         THEN \E k \in 0..Len(text) :
                 MatchGlob(SubSeq(text, k + 1, Len(text)), Tail(pattern))
    ELSE IF text = "" THEN FALSE
    ELSE IF Ch(pattern, 1) = "?" THEN MatchGlob(Tail(text), Tail(pattern))
    ELSE Ch(pattern, 1) = Ch(text, 1) /\ MatchGlob(Tail(text), Tail(pattern))

\* new RegExp(value, flags): the values of the model's rules are literal text
\* (no metacharacter) or hold an unterminated group, which RegExp rejects
\* ("Unterminated group"), or start with a quantifier ("Nothing to repeat")
RegExpThrows(value) ==
    \/ Includes(value, "(") /\ ~Includes(value, ")")
    \/ StartsWith(value, "*")

RegExpTest(value, ignoreCase, text) ==
    IF ignoreCase THEN Includes(ToLowerCase(text), ToLowerCase(value))
    ELSE Includes(text, value)

MatchesPattern(text, rule) ==
    LET pattern == rule.pattern
        testText == IF pattern.case_insensitive THEN ToLowerCase(text) ELSE text
        testValue == IF pattern.case_insensitive THEN ToLowerCase(pattern.value)
                     ELSE pattern.value
    IN  CASE pattern.kind = "Contains" ->
                Includes(testText, testValue) # pattern.is_exclude
          [] pattern.kind = "Glob" ->
                MatchGlob(testText, testValue) # pattern.is_exclude
          [] pattern.kind = "Regex" ->
                IF RegExpThrows(testValue) THEN FALSE
                ELSE RegExpTest(testValue, pattern.case_insensitive, text)
                        # pattern.is_exclude
          [] OTHER -> FALSE

\* findMatchingRule with the exclude rules taken first: a name an enabled
\* exclude rule's pattern matches gets no rule
FindMatchingRuleExcludeFirst(rules, folderName) ==
    LET positive(i) == [rules[i] EXCEPT !.pattern.is_exclude = FALSE]
        excluded == \E i \in 1..Len(rules) :
                        /\ rules[i].enabled /\ rules[i].pattern.is_exclude
                        /\ MatchesPattern(folderName, positive(i))
        matching == {i \in 1..Len(rules) :
                        /\ rules[i].enabled /\ ~rules[i].pattern.is_exclude
                        /\ MatchesPattern(folderName, rules[i])}
    IN  IF excluded \/ matching = {} THEN 0
        ELSE CHOOSE i \in matching : \A j \in matching : i <= j

\* the index in `rules` of the rule findMatchingRule returns, 0 for undefined
FindMatchingRule(rules, folderName) ==
    LET matching == {i \in 1..Len(rules) :
                        rules[i].enabled /\ MatchesPattern(folderName, rules[i])}
    IN  IF matching = {} THEN 0
        ELSE CHOOSE i \in matching : \A j \in matching : i <= j

GenerateDestinationPath(folder, rule) ==
    LET t1 == Replace(rule.template, "{name}", folder.name)
        t2 == Replace(t1, "{year}", CurrentYear)
        t3 == Replace(t2, "{month}", PadStart(CurrentMonth, 2, "0"))
        t4 == Replace(t3, "{day}", PadStart(CurrentDay, 2, "0"))
    IN  rule.dest_root \o "\\" \o t4

\* analyzeWarnings(path) for the j-th folder of the task
AnalyzeWarnings(path, j, fired) ==
    (IF Len(path) > 250 THEN <<"LongPath">> ELSE <<>>)
    \o (IF Includes(path, "$") \/ Includes(path, "@") THEN <<"AclDiffers">> ELSE <<>>)
    \o (IF <<j, "Junction">> \in fired THEN <<"Junction">>
        ELSE IF <<j, "CrossVolume">> \in fired THEN <<"CrossVolume">>
        ELSE <<>>)

\* the hits generateMockResults pushes for one root
GenerateMockResults(root, rules, fired) ==
    LET mockFolders == GenerateRealisticFolders(root)
    IN  [j \in 1..Len(mockFolders) |->
            LET folder == mockFolders[j]
                m == FindMatchingRule(rules, folder.name)
            IN  [path |-> folder.path,
                 name |-> folder.name,
                 matched_rule |-> IF m = 0 THEN ""
                                  ELSE IF rules[m].label # "" THEN rules[m].label
                                  ELSE rules[m].id,
                 dest_preview |-> IF m = 0 THEN ""
                                  ELSE GenerateDestinationPath(folder, rules[m]),
                 warnings |-> AnalyzeWarnings(folder.path, j, fired),
                 size_bytes |-> folder.size]]

(***************************************************************************)
(* PlanGenerator.                                                          *)
(***************************************************************************)
SeqIncludes(seq, x) == \E k \in 1..Len(seq) : seq[k] = x

\* analyzeConflicts(hit); nameExists and noSpace are the two Math.random()
\* draws of the call.  `available` is 70% to 90% of `required`, so it is
\* below it for every size over 100 MiB: the lowest value is kept.
AnalyzeConflicts(hit, nameExists, noSpace) ==
    (IF hit.dest_preview # "" /\ nameExists
     THEN <<[type |-> "NameExists", existing_path |-> hit.dest_preview \o "_backup"]>>
     ELSE <<>>)
    \o (IF SeqIncludes(hit.warnings, "AccessDenied")
        THEN <<[type |-> "Permission", required_permission |-> "Administrator"]>>
        ELSE <<>>)
    \o (IF hit.size_bytes # 0 /\ hit.size_bytes > 1024 * 100 /\ noSpace
        THEN <<[type |-> "NoSpace", required |-> hit.size_bytes,
                available |-> (hit.size_bytes * 7) \div 10]>>
        ELSE <<>>)
    \o (IF hit.dest_preview # ""
           /\ Includes(ToLowerCase(hit.path), ToLowerCase(hit.dest_preview))
        THEN <<[type |-> "DestInsideSource"]>>
        ELSE <<>>)

\* /^([A-Za-z]):/ : the drive letter, "" when the path has none
DriveLetter(path) ==
    IF Len(path) >= 2 /\ IsLetter(Ch(path, 1)) /\ Ch(path, 2) = ":"
    THEN Ch(path, 1) ELSE ""

IsCrossVolume(sourcePath, destPath) ==
    IF DriveLetter(sourcePath) # "" /\ DriveLetter(destPath) # ""
    THEN ToLowerCase(DriveLetter(sourcePath)) # ToLowerCase(DriveLetter(destPath))
    ELSE SplitFirst(sourcePath, "\\") # SplitFirst(destPath, "\\")

\* determineOperationKind without its test of the conflicts (lines 361-364)
DetermineOperationKindIgnoringConflicts(hit, nameExists, noSpace) ==
    IF hit.dest_preview = "" THEN "Skip"
    ELSE IF SeqIncludes(hit.warnings, "AccessDenied") THEN "Skip"
    ELSE IF IsCrossVolume(hit.path, hit.dest_preview) THEN "CopyDelete"
    ELSE IF ToLowerCase(Substring0(hit.path, LastIndexOf(hit.path, "\\")))
            = ToLowerCase(Substring0(hit.dest_preview, LastIndexOf(hit.dest_preview, "\\")))
         THEN "Rename"
    ELSE "Move"

\* determineOperationKind(hit); it calls analyzeConflicts again, with draws
\* of its own
DetermineOperationKind(hit, nameExists, noSpace) ==
    IF hit.dest_preview = "" THEN "Skip"
    ELSE IF Len(AnalyzeConflicts(hit, nameExists, noSpace)) > 0 THEN "Skip"
    ELSE IF SeqIncludes(hit.warnings, "AccessDenied") THEN "Skip"
    ELSE IF IsCrossVolume(hit.path, hit.dest_preview) THEN "CopyDelete"
    ELSE IF ToLowerCase(Substring0(hit.path, LastIndexOf(hit.path, "\\")))
            = ToLowerCase(Substring0(hit.dest_preview, LastIndexOf(hit.dest_preview, "\\")))
         THEN "Rename"
    ELSE "Move"

NodeId(i) == "node_" \o NumStr(i)

\* the node generatePlan builds for folderHits[i] (i from 0)
PlanNodeOf(folderHits, i, fired) ==
    LET hit == folderHits[i + 1]
    IN  [id |-> NodeId(i),
         is_dir |-> TRUE,
         name_before |-> hit.name,
         path_before |-> hit.path,
         name_after |-> hit.name,
         path_after |-> IF hit.dest_preview # "" THEN hit.dest_preview ELSE hit.path,
         kind |-> DetermineOperationKind(hit, <<i + 1, "KindNameExists">> \in fired,
                                         <<i + 1, "KindNoSpace">> \in fired),
         size_bytes |-> hit.size_bytes,
         warnings |-> hit.warnings,
         conflicts |-> AnalyzeConflicts(hit, <<i + 1, "NameExists">> \in fired,
                                        <<i + 1, "NoSpace">> \in fired),
         children |-> <<>>,
         rule_id |-> hit.matched_rule]

RECURSIVE SumOver(_, _)
SumOver(f, n) == IF n = 0 THEN 0 ELSE f[n] + SumOver(f, n - 1)

\* Math.floor(Math.random() * 50) + 10: the lowest and the highest value
EstimatedFiles(many) == IF many THEN 59 ELSE 10

\* the nodes generatePlan's loop builds for folderHits[0..n-1]
RECURSIVE PlanNodes(_, _, _)
PlanNodes(folderHits, fired, n) ==
    IF n = 0 THEN <<>>
    ELSE Append(PlanNodes(folderHits, fired, n - 1), PlanNodeOf(folderHits, n - 1, fired))

\* the MovePlan generatePlan stores in its session
GeneratePlanResult(folderHits, fired) ==
    LET n == Len(folderHits)
        node == PlanNodes(folderHits, fired, n)
    IN  [roots |-> [k \in 1..n |-> NodeId(k - 1)],
         nodes |-> [id \in {NodeId(i) : i \in 0..(n - 1)} |->
                      node[CHOOSE k \in 1..n : node[k].id = id]],
         summary |->
            [count_dirs |-> n,
             count_files |-> SumOver([k \in 1..n |->
                                EstimatedFiles(<<k, "ManyFiles">> \in fired)], n),
             total_bytes |-> SumOver([k \in 1..n |-> folderHits[k].size_bytes], n),
             cross_volume |-> SumOver([k \in 1..n |->
                                IF folderHits[k].dest_preview # ""
                                   /\ IsCrossVolume(folderHits[k].path,
                                                    folderHits[k].dest_preview)
                                THEN 1 ELSE 0], n),
             conflicts |-> SumOver([k \in 1..n |-> Len(node[k].conflicts)], n),
             warnings |-> SumOver([k \in 1..n |-> Len(folderHits[k].warnings)], n)]]

(***************************************************************************)
(* Inputs: the roots and the rule lists a user sets up (SetupPage).        *)
(***************************************************************************)
Rule(id, kind, value, dest_root, template, priority) ==
    [id |-> id, enabled |-> TRUE,
     pattern |-> [kind |-> kind, value |-> value, is_exclude |-> FALSE,
                  case_insensitive |-> TRUE],
     dest_root |-> dest_root, template |-> template, policy |-> "AutoRename",
     label |-> "", priority |-> priority]

RuleCacheNested == Rule("r-cache", "Contains", "cache", "C:\\A\\temp\\cache", "{name}", 0)
RuleImagesToCache == Rule("r-images", "Contains", "images", "C:\\A\\temp\\cache", "{name}", 0)
RuleCacheToImages == Rule("r-cache2", "Contains", "CACHE", "C:\\A\\media\\images", "{name}", 1)
RuleBackupInPlace == Rule("r-backup", "Glob", "*_backup", "C:\\A", "{name}", 0)
RuleSortAll == Rule("r-all", "Glob", "*", "D:\\Sorted", "{year}\\{name}", 1)
RulePhotosUp == Rule("r-photos", "Regex", "vacation", "C:\\Users\\Documents", "Photos", 0)
RuleRenameImages == Rule("r-old", "Contains", "images", "C:\\A\\media", "{name}_old", 0)
RuleToOtherServer == Rule("r-nas", "Contains", "images", "\\\\nas2\\archive", "{name}", 0)

RuleLists ==
    { <<>>,
      <<RuleCacheNested>>,
      <<RuleImagesToCache, RuleCacheToImages>>,
      <<RuleBackupInPlace>>,
      <<RuleSortAll>>,
      <<RuleBackupInPlace, RuleSortAll>>,
      <<RulePhotosUp>>,
      <<RuleRenameImages>>,
      <<RuleToOtherServer>> }

RootPool == {"C:\\A", "D:\\A", "C:\\Users\\Documents", "\\\\nas1\\share"}

RootLists == UNION {[1..n -> RootPool] : n \in 0..MaxRoots}

ScanSessionId == "scan-1700000000000-k3j9x0q1z"
PlanSessionId == "plan-1700000001000-p0o9i8u7y"

(***************************************************************************)
(* State.  An optional object (progress, results, plan) is a sequence of   *)
(* length 0 (undefined) or 1.                                              *)
(***************************************************************************)
VARIABLES
    scanner,        \* a FileScanner: its session, rules and loop position
    planGenerator,  \* a PlanGenerator: its session and hits
    executors,      \* the FileExecutor objects, in creation order
    manager,        \* the SessionManager's maps of execution sessions
    journal,        \* the records written to the journal file
    console,        \* console.warn output of the executors
    config,         \* SetupPage's state: the roots, rules and options
    scanResultsPage, \* ScanResultsPage's state: the polled session, the selection
    rejections,     \* the errors the promises of the start operations rejected with
    executionPage   \* ExecutionPage's state in demo mode, with its timers

vars == <<scanner, planGenerator, executors, manager, journal, console, config,
          scanResultsPage, rejections, executionPage>>

\* useState<Config> of SetupPage, with the parts of it the services are
\* given; uuids counts the ids crypto.randomUUID has handed out and edits
\* the calls of updateRule
InitialConfig ==
    [roots |-> <<>>,
     rules |-> <<>>,
     options |-> [follow_junctions |-> FALSE, system_protections |-> TRUE,
                  excluded_paths |-> <<>>],
     uuids |-> 0,
     edits |-> 0]

\* new FileScanner(sessionId, roots, rules, options)
NewFileScanner(sessionId, roots, rules) ==
    [session |-> [id |-> sessionId, roots |-> roots, status |-> "Created",
                  progress |-> <<>>, results |-> <<>>, error |-> ""],
     rules |-> rules,
     isScanning |-> FALSE,
     i |-> 0,            \* startScan's loop variable
     results |-> <<>>]   \* startScan's local results

NoPlanGenerator ==
    [constructed |-> FALSE,
     session |-> [id |-> "", scan_id |-> "", status |-> "Created", plan |-> <<>>,
                  error |-> ""],
     folderHits |-> <<>>]

\* new PlanGenerator(sessionId, folderHits)
NewPlanGenerator(sessionId, folderHits) ==
    [constructed |-> TRUE,
     session |-> [id |-> sessionId, scan_id |-> "", status |-> "Created",
                  plan |-> <<>>, error |-> ""],
     folderHits |-> folderHits]

NoManager ==
    [scanSessions |-> <<>>, scanners |-> <<>>,
     planSessions |-> <<>>, planGenerators |-> <<>>,
     executionSessions |-> <<>>, created |-> <<>>, executors |-> <<>>]

\* useState of ScanResultsPage before the page is shown; polled tells that
\* pollSession has run
NoScanResultsPage ==
    [session |-> <<>>, isLoading |-> TRUE, selectedHits |-> {}, polled |-> FALSE]

\* useState of ExecutionPage before the page is shown, and the timers of
\* its effect: progress is the variable of the closure, interval tells that
\* progressInterval is set, completion and navigation that the timeout of
\* line 65 and a timeout of navigate are pending; location is the route
NoExecutionPage ==
    [session |-> <<>>, isLoading |-> TRUE, canCancel |-> TRUE, progress |-> 0,
     interval |-> FALSE, completion |-> FALSE, navigation |-> FALSE,
     location |-> ""]

(***************************************************************************)
(* FileScanner.startScan, as called once on a new scanner.                 *)
(***************************************************************************)
\* lines 23-42: up to the first await, or to the end when there is no root
ScanStartResult(sc) ==
    LET running == [sc EXCEPT
            !.isScanning = TRUE,
            !.session.status = "Running",
            !.session.progress = <<[current_item |-> "", completed_ops |-> 0,
                                    total_ops |-> 1, bytes_processed |-> 0]>>,
            !.i = 0,
            !.results = <<>>]
    IN  IF Len(sc.session.roots) = 0
        THEN [running EXCEPT
                !.session.status = "Completed",
                !.session.results = <<running.results>>,
                !.session.progress[1].total_ops = 0,
                !.isScanning = FALSE]
        ELSE [running EXCEPT !.session.progress[1].current_item = sc.session.roots[1]]

\* lines 51-63: the 500 ms timer of generateMockResults fires for roots[i]
ScanRootDoneResult(sc, fired) ==
    LET root == sc.session.roots[sc.i + 1]
        pushed == [sc EXCEPT
            !.results = @ \o GenerateMockResults(root, sc.rules, fired),
            !.session.progress[1].completed_ops = sc.i + 1,
            !.i = sc.i + 1]
    IN  IF pushed.i < Len(sc.session.roots)
        THEN [pushed EXCEPT
                !.session.progress[1].current_item = sc.session.roots[pushed.i + 1]]
        ELSE [pushed EXCEPT
                !.session.status = "Completed",
                !.session.results = <<pushed.results>>,
                !.session.progress[1].total_ops = Len(sc.session.roots),
                !.isScanning = FALSE]

\* the draws of the scan that fell below the threshold: one per warning
RandomWarnings(hits) ==
    Cardinality({k \in 1..Len(hits) :
                    SeqIncludes(hits[k].warnings, "Junction")
                    \/ SeqIncludes(hits[k].warnings, "CrossVolume")})

ScanStart ==
    /\ scanner.session.status = "Created"
    /\ ~scanner.isScanning
    /\ scanner' = ScanStartResult(scanner)
    /\ UNCHANGED <<planGenerator, executors, manager, journal, console, config,
                 scanResultsPage,
                   rejections, executionPage>>

ScanRootDone ==
    /\ scanner.isScanning
    /\ \E fired \in Draws(3, ScanDrawKinds, RandomWarnings(scanner.results)) :
          scanner' = ScanRootDoneResult(scanner, fired)
    /\ UNCHANGED <<planGenerator, executors, manager, journal, console, config,
                 scanResultsPage,
                   rejections, executionPage>>

(***************************************************************************)
(* PlanGenerator.generatePlan on the results of the scan.                  *)
(***************************************************************************)
\* lines 217-232: the constructor, and generatePlan up to its await
PlanStart ==
    /\ ~planGenerator.constructed
    /\ scanner.session.results # <<>>
    /\ planGenerator' =
          [NewPlanGenerator(PlanSessionId, scanner.session.results[1])
             EXCEPT !.session.status = "Running"]
    /\ UNCHANGED <<scanner, executors, manager, journal, console, config, scanResultsPage,
                   rejections, executionPage>>

\* lines 234-300: the delay is over
PlanDoneResult(pg, fired) ==
    [pg EXCEPT !.session.status = "Completed",
               !.session.plan = <<GeneratePlanResult(pg.folderHits, fired)>>]

PlanDone ==
    /\ planGenerator.constructed
    /\ planGenerator.session.status = "Running"
    /\ \E fired \in Draws(Len(planGenerator.folderHits), PlanDrawKinds,
                          RandomWarnings(planGenerator.folderHits)) :
          planGenerator' = PlanDoneResult(planGenerator, fired)
    /\ UNCHANGED <<scanner, executors, manager, journal, console, config, scanResultsPage,
                   rejections, executionPage>>

InitPlan ==
    /\ \E roots \in RootLists, rules \in RuleLists :
          scanner = NewFileScanner(ScanSessionId, roots, rules)
    /\ planGenerator = NoPlanGenerator
    /\ executors = <<>>
    /\ manager = NoManager
    /\ journal = <<>>
    /\ console = <<>>
    /\ config = InitialConfig
    /\ scanResultsPage = NoScanResultsPage
    /\ rejections = <<>>
    /\ executionPage = NoExecutionPage

NextPlan == ScanStart \/ ScanRootDone \/ PlanStart \/ PlanDone

\* scanning, then planning, of one set-up
SpecPlan == InitPlan /\ [][NextPlan]_vars

(***************************************************************************)
(* FileExecutor.  simulateExecution's list of operations is drawn lazily:  *)
(* the number of files of each root node when the list is generated, the   *)
(* extension of a file name when the operation becomes current_item, its   *)
(* size when the operation is counted.  No code reads a value earlier.     *)
(***************************************************************************)
JournalPath == "C:\\Users\\User\\AppData\\Local\\FileMover\\journal_2026-11-04T10-00-00-000Z.json"

Extensions == <<".jpg", ".png", ".pdf", ".txt", ".docx", ".xlsx", ".mp4", ".mp3">>
ProjectFileNames == <<"index.html", "style.css", "script.js", "README.md", "package.json">>

RECURSIVE Join(_, _)
Join(seq, sep) ==
    IF Len(seq) = 0 THEN ""
    ELSE IF Len(seq) = 1 THEN seq[1]
    ELSE seq[1] \o sep \o Join(Tail(seq), sep)

\* the draws of one operation: whether its failure is simulated, where its
\* size falls in [0.5, 1.5) times the mean, and the extension of the next
\* file name; a value other than the first of each counts as a random event
OperationDraws(budget) ==
    {d \in [fail : BOOLEAN, size : {"mid", "low", "high"}, ext : 1..Len(Extensions)] :
        (IF d.fail THEN 1 ELSE 0) + (IF d.size # "mid" THEN 1 ELSE 0)
            + (IF d.ext # 1 THEN 1 ELSE 0) <= budget}

DrawCost(d) ==
    (IF d.fail THEN 1 ELSE 0) + (IF d.size # "mid" THEN 1 ELSE 0)
        + (IF d.ext # 1 THEN 1 ELSE 0)

\* Math.floor(Math.random() * 30) + 5 for each root: 5 to 5 + MaxExtraFiles
FileCountDraws(plan) == [1..Len(plan.roots) -> 5..(5 + MaxExtraFiles)]

\* new FileExecutor(sessionId, plan)
NewFileExecutor(sessionId, plan) ==
    [session |-> [id |-> sessionId, plan_id |-> Join(plan.roots, ","),
                  status |-> "Created", progress |-> <<>>,
                  journal_path |-> JournalPath, error |-> ""],
     plan |-> plan,
     isCancelled |-> FALSE,
     awaiting |-> FALSE,     \* simulateExecution waits for its delay timer
     fileCounts |-> <<>>,    \* files of each root in `operations`
     i |-> 0,                \* simulateExecution's locals
     completedOps |-> 0,
     processedBytes |-> 0,
     drawn |-> 0]            \* random events of this execution so far

CalculateTotalOperations(plan) ==
    LET estimated == [k \in 1..Len(plan.roots) |->
            LET node == plan.nodes[plan.roots[k]]
            IN  IF node.kind # "Skip" /\ node.kind # "None"
                THEN ((IF node.size_bytes # 0 THEN node.size_bytes ELSE 1024 * 10)
                        \div 1024) + 5
                ELSE 0]
        totalOps == SumOver(estimated, Len(plan.roots))
    IN  IF totalOps > 10 THEN totalOps ELSE 10

\* operations.length
OperationCount(e) == SumOver(e.fileCounts, Len(e.fileCounts))

\* the root (1-based position in plan.roots) and the file index (from 0) of
\* operations[i]
RECURSIVE OperationAt(_, _, _)
OperationAt(fileCounts, i, k) ==
    IF i < fileCounts[k] THEN [root |-> k, index |-> i]
    ELSE OperationAt(fileCounts, i - fileCounts[k], k + 1)

GenerateFileName(index, baseName, ext) ==
    IF Includes(ToLowerCase(baseName), "photo") \/ Includes(ToLowerCase(baseName), "vacation")
    THEN "IMG_" \o PadStart(NumStr(index + 1), 3, "0") \o Extensions[ext]
    ELSE IF Includes(ToLowerCase(baseName), "project")
            \/ Includes(ToLowerCase(baseName), "code")
    THEN ProjectFileNames[(index % Len(ProjectFileNames)) + 1]
    ELSE "file_" \o NumStr(index + 1) \o Extensions[ext]

\* operations[i].path
OperationPath(e, i, ext) ==
    LET op == OperationAt(e.fileCounts, i, 1)
        node == e.plan.nodes[e.plan.roots[op.root]]
    IN  node.path_before \o "\\" \o GenerateFileName(op.index, node.name_before, ext)

\* operations[i].size: Math.floor(totalSize / fileCount * (0.5 + random))
OperationSize(e, i, size) ==
    LET op == OperationAt(e.fileCounts, i, 1)
        node == e.plan.nodes[e.plan.roots[op.root]]
        totalSize == IF node.size_bytes # 0 THEN node.size_bytes ELSE 1024 * 50
        fileCount == e.fileCounts[op.root]
    IN  CASE size = "low" -> totalSize \div (fileCount * 2)
          [] size = "mid" -> totalSize \div fileCount
          [] size = "high" -> (totalSize * 5) \div (fileCount * 4)

\* executeMovePlan without the statements after simulateExecution
ExecuteFinishWithoutStatus(e) == [e EXCEPT !.awaiting = FALSE]

\* lines 445-454: simulateExecution has returned
ExecuteFinish(e) ==
    IF e.isCancelled
    THEN [e EXCEPT !.awaiting = FALSE, !.session.status = "Cancelled"]
    ELSE [e EXCEPT
            !.awaiting = FALSE,
            !.session.status = "Completed",
            !.session.progress[1].completed_ops = e.session.progress[1].total_ops,
            !.session.progress[1].bytes_processed = e.session.progress[1].total_bytes,
            !.session.progress[1].current_item = "",
            !.session.progress[1].current_speed = <<>>,
            !.session.progress[1].eta = <<>>]

\* the loop without the !this.isCancelled of its test (line 470)
ExecuteLoopIgnoringCancel(e, ext) ==
    IF e.i < OperationCount(e)
    THEN [e EXCEPT !.awaiting = TRUE,
                   !.session.progress[1].current_item = OperationPath(e, e.i, ext)]
    ELSE ExecuteFinish(e)

\* lines 470-478: the loop test and the start of operations[i]
ExecuteLoop(e, ext) ==
    IF e.i < OperationCount(e) /\ ~e.isCancelled
    THEN [e EXCEPT !.awaiting = TRUE,
                   !.session.progress[1].current_item = OperationPath(e, e.i, ext)]
    ELSE ExecuteFinish(e)

\* lines 426-443 and 461-478: executeMovePlan up to the first delay
ExecuteStart(e, fileCounts, ext) ==
    LET totalOps == CalculateTotalOperations(e.plan)
        started == [e EXCEPT
            !.session.status = "Running",
            !.session.progress =
                <<[current_item |-> "", completed_ops |-> 0, total_ops |-> totalOps,
                   bytes_processed |-> 0, total_bytes |-> e.plan.summary.total_bytes,
                   current_speed |-> <<>>, eta |-> <<>>]>>,
            !.fileCounts = fileCounts,
            !.i = 0, !.completedOps = 0, !.processedBytes = 0,
            !.drawn = IF ext # 1 THEN 1 ELSE 0]
    IN  ExecuteLoop(started, ext)

\* lines 480-507 and the next turn of the loop: the delay of operations[i]
\* is over.  elapsedTime is always 1 (getStartTime), so speed = completedOps
\* and eta = remainingOps / speed, kept as <<remainingOps, speed>>.
OperationDone(e, d) ==
    IF e.isCancelled THEN ExecuteFinish(e)
    ELSE LET completedOps == e.completedOps + 1
             processedBytes == e.processedBytes + OperationSize(e, e.i, d.size)
             totalOps == e.session.progress[1].total_ops
             counted == [e EXCEPT
                !.completedOps = completedOps,
                !.processedBytes = processedBytes,
                !.session.progress[1].completed_ops = completedOps,
                !.session.progress[1].bytes_processed = processedBytes,
                !.session.progress[1].current_speed = <<completedOps>>,
                !.session.progress[1].eta = <<totalOps - completedOps, completedOps>>,
                !.drawn = e.drawn + DrawCost(d),
                !.i = e.i + 1]
         IN  \* counted is bound as a value: it is computed once
             CHOOSE next \in {ExecuteLoop(c, d.ext) : c \in {counted}} : TRUE

\* the console.warn of line 504, when the failure of operations[i] is drawn
FailureWarning(e, d) ==
    IF ~e.isCancelled /\ d.fail
    THEN <<"Simulated failure for operation: "
            \o e.session.progress[1].current_item>>
    ELSE <<>>

\* FileExecutor.cancel
Cancel(e) == [e EXCEPT !.isCancelled = TRUE]

(***************************************************************************)
(* One FileExecutor running a plan (SpecExec).  It starts from a completed *)
(* scan and a completed plan of SpecPlan.                                  *)
(***************************************************************************)
ExecSessionId == "exec-1700000002000-e5r4t3w2q"

RECURSIVE ScanToEnd(_)
ScanToEnd(sc) == IF sc.isScanning THEN ScanToEnd(ScanRootDoneResult(sc, {})) ELSE sc

\* the scanner after startScan has resolved (no random warning drawn)
CompletedScanner(roots, rules) ==
    ScanToEnd(ScanStartResult(NewFileScanner(ScanSessionId, roots, rules)))

\* the plan generator after generatePlan has resolved
CompletedPlanGenerator(sc, fired) ==
    PlanDoneResult([NewPlanGenerator(PlanSessionId, sc.session.results[1])
                      EXCEPT !.session.status = "Running"], fired)

ExecRootLists == {<<>>, <<"C:\\A">>, <<"C:\\Users\\Documents">>}
ExecRuleLists == {<<>>, <<RuleCacheNested>>, <<RuleSortAll>>, <<RulePhotosUp>>}

InitExec ==
    /\ \E roots \in ExecRootLists, rules \in ExecRuleLists :
          /\ scanner = CompletedScanner(roots, rules)
          /\ \E fired \in Draws(Len(scanner.session.results[1]), {"KindNameExists"}, 0) :
                planGenerator = CompletedPlanGenerator(scanner, fired)
    /\ executors = <<NewFileExecutor(ExecSessionId, planGenerator.session.plan[1])>>
    /\ manager = NoManager
    /\ journal = <<>>
    /\ console = <<>>
    /\ config = InitialConfig
    /\ scanResultsPage = NoScanResultsPage
    /\ rejections = <<>>
    /\ executionPage = NoExecutionPage

\* executor.executeMovePlan()
ExecStart ==
    /\ executors[1].session.status = "Created"
    /\ \E fileCounts \in FileCountDraws(executors[1].plan), ext \in 1..Len(Extensions) :
          /\ (ext # 1) => MaxRandomEvents > 0
          /\ executors' = [executors EXCEPT ![1] = ExecuteStart(@, fileCounts, ext)]
    /\ UNCHANGED <<scanner, planGenerator, manager, journal, console, config,
                 scanResultsPage,
                   rejections, executionPage>>

\* the delay timer of the current operation fires
ExecOperationDone ==
    /\ executors[1].awaiting
    /\ \E d \in OperationDraws(MaxRandomEvents - executors[1].drawn) :
          /\ executors' = [executors EXCEPT ![1] = OperationDone(@, d)]
          /\ console' = console \o FailureWarning(executors[1], d)
    /\ UNCHANGED <<scanner, planGenerator, manager, journal, config, scanResultsPage,
                   rejections, executionPage>>

\* executor.cancel()
ExecCancel ==
    /\ ~executors[1].isCancelled
    /\ executors' = [executors EXCEPT ![1] = Cancel(@)]
    /\ UNCHANGED <<scanner, planGenerator, manager, journal, console, config,
                 scanResultsPage,
                   rejections, executionPage>>

NextExec == ExecStart \/ ExecOperationDone \/ ExecCancel

SpecExec == InitExec /\ [][NextExec]_vars

\* the same, when the timer of setTimeout fires whenever a delay is awaited
SpecExecFair == SpecExec /\ WF_vars(ExecOperationDone)

(***************************************************************************)
(* SessionManager: the execution sessions (Spec).  The maps hold           *)
(* references: executionSessions[id] is 0 for the object                   *)
(* createExecutionSession made (kept in `created`) and k for the session   *)
(* object of executors[k].  The draws of the executors are kept at their   *)
(* first values here: the session manager reads no progress.               *)
(***************************************************************************)
MapPut(m, key, value) ==
    [x \in (DOMAIN m) \cup {key} |-> IF x = key THEN value ELSE m[x]]

SessionRootLists == {<<>>, <<"C:\\A">>}
SessionRuleLists == {<<RuleCacheNested>>}

\* the state after startScan and startPlanning have resolved
Init ==
    /\ \E roots \in SessionRootLists, rules \in SessionRuleLists :
          /\ scanner = CompletedScanner(roots, rules)
          /\ planGenerator = CompletedPlanGenerator(scanner, {})
    /\ executors = <<>>
    /\ manager = [NoManager EXCEPT
                     !.scanSessions = MapPut(<<>>, ScanSessionId, scanner.session),
                     !.scanners = MapPut(<<>>, ScanSessionId, TRUE),
                     !.planSessions = MapPut(<<>>, PlanSessionId, planGenerator.session),
                     !.planGenerators = MapPut(<<>>, PlanSessionId, planGenerator)]
    /\ journal = <<>>
    /\ console = <<>>
    /\ config = InitialConfig
    /\ scanResultsPage = NoScanResultsPage
    /\ rejections = <<>>
    /\ executionPage = NoExecutionPage

\* getExecutionSession(id), for an id of the map
GetExecutionSession(id) ==
    IF manager.executionSessions[id] = 0 THEN manager.created[id]
    ELSE executors[manager.executionSessions[id]].session

\* createExecutionSession(planId)
CreateExecutionSession(planId) ==
    /\ ExecSessionId \notin DOMAIN manager.created
    /\ manager' = [manager EXCEPT
          !.created = MapPut(@, ExecSessionId,
              [id |-> ExecSessionId, plan_id |-> planId, status |-> "Created",
               progress |-> <<>>, journal_path |-> "", error |-> ""]),
          !.executionSessions = MapPut(@, ExecSessionId, 0)]
    /\ UNCHANGED <<scanner, planGenerator, executors, journal, console, config,
                 scanResultsPage,
                   rejections, executionPage>>

\* lines 127-128, when executeMovePlan of executors[k] has resolved
StoreWhenResolved(mgr, id, k, e) ==
    IF e.awaiting THEN mgr
    ELSE [mgr EXCEPT !.executionSessions = MapPut(@, id, k)]

\* the error startExecution(id) throws (lines 112-120), "" for none
StartExecutionError(mgr, id) ==
    IF id \notin DOMAIN mgr.executionSessions THEN "Execution session not found"
    ELSE LET session == IF mgr.executionSessions[id] = 0 THEN mgr.created[id]
                        ELSE executors[mgr.executionSessions[id]].session
         IN  IF \/ session.plan_id = ""
                \/ session.plan_id \notin DOMAIN mgr.planSessions
                \/ mgr.planSessions[session.plan_id].plan = <<>>
             THEN "Plan session or plan not found"
             ELSE ""

\* startExecution(sessionId), to the first delay of the executor, or to
\* its throw
StartExecution(id) ==
    IF StartExecutionError(manager, id) # ""
    THEN /\ Len(rejections) < MaxRejections
         /\ rejections' = Append(rejections, StartExecutionError(manager, id))
         /\ UNCHANGED <<scanner, planGenerator, executors, manager, journal, console,
                        config, scanResultsPage, executionPage>>
    ELSE /\ Len(executors) < MaxStarts
         /\ LET session == GetExecutionSession(id)
                plan == manager.planSessions[session.plan_id].plan[1]
                k == Len(executors) + 1
                e == ExecuteStart(NewFileExecutor(id, plan),
                                  [r \in 1..Len(plan.roots) |-> 5], 1)
            IN  /\ executors' = Append(executors, e)
                /\ manager' = StoreWhenResolved(
                      [manager EXCEPT !.executors = MapPut(@, id, k)], id, k, e)
         /\ UNCHANGED <<scanner, planGenerator, journal, console, config,
                        scanResultsPage, rejections, executionPage>>

\* the delay timer of executors[k] fires; when the execution ends,
\* startExecution stores the executor's session
ExecutorTimer(k) ==
    /\ executors[k].awaiting
    /\ LET e == OperationDone(executors[k], [fail |-> FALSE, size |-> "mid", ext |-> 1])
       IN  /\ executors' = [executors EXCEPT ![k] = e]
           /\ manager' = StoreWhenResolved(manager, e.session.id, k, e)
    /\ UNCHANGED <<scanner, planGenerator, journal, console, config, scanResultsPage,
                   rejections, executionPage>>

\* cancelExecution(sessionId): executor.cancel(), then the status of the
\* stored session object (the await between them yields to no timer)
CancelExecution(id) ==
    /\ LET cancelled ==
              IF id \in DOMAIN manager.executors
              THEN [executors EXCEPT ![manager.executors[id]] = Cancel(@)]
              ELSE executors
           ref == IF id \in DOMAIN manager.executionSessions
                  THEN manager.executionSessions[id] ELSE -1
       IN  /\ executors' = IF ref > 0
                           THEN [cancelled EXCEPT ![ref].session.status = "Cancelled"]
                           ELSE cancelled
           /\ manager' = IF ref = 0
                         THEN [manager EXCEPT !.created[id].status = "Cancelled"]
                         ELSE manager
    /\ UNCHANGED <<scanner, planGenerator, journal, console, config, scanResultsPage,
                   rejections, executionPage>>

\* id.split('-')[1], "" for undefined
SplitSecond(s, sep) ==
    IF IndexOf(s, sep) = -1 THEN ""
    ELSE SplitFirst(SubSeq(s, IndexOf(s, sep) + Len(sep) + 1, Len(s)), sep)

DigitValue(c) == CHOOSE d \in 0..9 : Ch(Digits, d + 1) = c

\* parseInt of a string of digits, after the digits read made acc
RECURSIVE ParseDigits(_, _)
ParseDigits(s, acc) ==
    IF s = "" \/ ~Includes(Digits, Ch(s, 1)) THEN acc
    ELSE ParseDigits(SubSeq(s, 2, Len(s)), acc * 10 + DigitValue(Ch(s, 1)))

\* the digits every Date.now() of the model starts with: times are counted
\* in milliseconds from 1700000000000
EpochDigits == "170000"

\* parseInt(id.split('-')[1]), from the epoch of the model
SessionTime(id) ==
    LET t == SplitSecond(id, "-")
    IN  ParseDigits(SubSeq(t, Len(EpochDigits) + 1, Len(t)), 0)

\* Date.now() - olderThanMinutes * 60 * 1000 of the calls of cleanup, from
\* the epoch of the model
CleanupCutoffs == {1500, 2500}

\* the ids the loop of cleanup deletes from a map of sessions (parseInt of
\* an id without a time is NaN, which is not below the cutoff)
OlderThan(sessions, cutoff) ==
    {id \in DOMAIN sessions :
        SplitSecond(id, "-") # "" /\ SessionTime(id) < cutoff}

\* Map.delete of each of the ids
MapRemove(m, ids) == [x \in (DOMAIN m) \ ids |-> m[x]]

\* cleanup(olderThanMinutes)
CleanupResult(mgr, cutoff) ==
    [mgr EXCEPT
        !.scanSessions = MapRemove(@, OlderThan(mgr.scanSessions, cutoff)),
        !.scanners = MapRemove(@, OlderThan(mgr.scanSessions, cutoff)),
        !.planSessions = MapRemove(@, OlderThan(mgr.planSessions, cutoff)),
        !.planGenerators = MapRemove(@, OlderThan(mgr.planSessions, cutoff)),
        !.executionSessions = MapRemove(@, OlderThan(mgr.executionSessions, cutoff)),
        !.executors = MapRemove(@, OlderThan(mgr.executionSessions, cutoff))]

Cleanup(cutoff) ==
    /\ manager' = CleanupResult(manager, cutoff)
    /\ UNCHANGED <<scanner, planGenerator, executors, journal, console, config,
                   scanResultsPage, rejections, executionPage>>

(***************************************************************************)
(* SetupPage: the user edits the roots, the rules and the options, then    *)
(* starts the scan of them (SpecSetup).                                    *)
(***************************************************************************)
\* paths a user gives to addRoot (the prompt takes any path)
RootChoices == {"C:\\A", "C:\\Windows"}

\* values a user types into the pattern field
PatternValues == {"*", "cache"}

PatternKinds == {"Glob", "Regex", "Contains"}

\* addRule: the new rule, appended
AddRuleResult(cfg) ==
    [cfg EXCEPT
        !.rules = Append(@,
            [id |-> "rule-" \o NumStr(cfg.uuids + 1),
             enabled |-> TRUE,
             pattern |-> [kind |-> "Glob", value |-> "*", is_exclude |-> FALSE,
                          case_insensitive |-> TRUE],
             dest_root |-> "",
             template |-> "{name}",
             policy |-> "AutoRename",
             label |-> "",
             priority |-> Len(cfg.rules)]),
        !.uuids = @ + 1]

\* { ...rule, ...updates }
Merge(rule, updates) ==
    [f \in (DOMAIN rule) \cup (DOMAIN updates) |->
        IF f \in DOMAIN updates THEN updates[f] ELSE rule[f]]

\* updateRule(index, updates), index from 0
UpdateRuleResult(rules, index, updates) ==
    [i \in 1..Len(rules) |->
        IF i - 1 = index THEN Merge(rules[i], updates) ELSE rules[i]]

\* prev.rules.filter((_, i) => i !== index), and the same for the roots
FilterOut(seq, index) ==
    [i \in 1..(Len(seq) - (IF index < Len(seq) THEN 1 ELSE 0)) |->
        IF i - 1 < index THEN seq[i] ELSE seq[i + 1]]

\* the updates the controls of one rule card send: the enabled checkbox,
\* the kind select, the pattern field and the exclude checkbox
RuleUpdates(rule) ==
    {[enabled |-> ~rule.enabled]}
    \cup {[pattern |-> [rule.pattern EXCEPT !.kind = k]] :
             k \in PatternKinds \ {rule.pattern.kind}}
    \cup {[pattern |-> [rule.pattern EXCEPT !.value = v]] :
             v \in PatternValues \ {rule.pattern.value}}
    \cup {[pattern |-> [rule.pattern EXCEPT !.is_exclude = ~@]]}

NoFileScanner == NewFileScanner("", <<>>, <<>>)

\* the page is shown until startScan navigates away
OnSetupPage == scanner.session.id = ""

AddRoot(path) ==
    /\ OnSetupPage
    /\ Len(config.roots) < MaxSetupRoots
    /\ config' = [config EXCEPT !.roots = Append(@, path)]
    /\ UNCHANGED <<scanner, planGenerator, executors, manager, journal, console,
                 scanResultsPage,
                   rejections, executionPage>>

RemoveRoot(index) ==
    /\ OnSetupPage
    /\ index < Len(config.roots)
    /\ config' = [config EXCEPT !.roots = FilterOut(@, index)]
    /\ UNCHANGED <<scanner, planGenerator, executors, manager, journal, console,
                 scanResultsPage,
                   rejections, executionPage>>

AddRule ==
    /\ OnSetupPage
    /\ config.uuids < MaxRuleAdds
    /\ config' = AddRuleResult(config)
    /\ UNCHANGED <<scanner, planGenerator, executors, manager, journal, console,
                 scanResultsPage,
                   rejections, executionPage>>

UpdateRule(index) ==
    /\ OnSetupPage
    /\ index < Len(config.rules)
    /\ config.edits < MaxRuleEdits
    /\ \E updates \in RuleUpdates(config.rules[index + 1]) :
          config' = [config EXCEPT
                        !.rules = UpdateRuleResult(@, index, updates),
                        !.edits = @ + 1]
    /\ UNCHANGED <<scanner, planGenerator, executors, manager, journal, console,
                 scanResultsPage,
                   rejections, executionPage>>

RemoveRule(index) ==
    /\ OnSetupPage
    /\ index < Len(config.rules)
    /\ config' = [config EXCEPT !.rules = FilterOut(@, index)]
    /\ UNCHANGED <<scanner, planGenerator, executors, manager, journal, console,
                 scanResultsPage,
                   rejections, executionPage>>

\* the system protection checkbox
ToggleSystemProtections ==
    /\ OnSetupPage
    /\ config' = [config EXCEPT !.options.system_protections = ~@]
    /\ UNCHANGED <<scanner, planGenerator, executors, manager, journal, console,
                 scanResultsPage,
                   rejections, executionPage>>

\* SetupPage.startScan: createScanSession, then startScan(id, config.rules,
\* config.options) up to the first delay of the scanner
SetupStartScan ==
    /\ OnSetupPage
    /\ Len(config.roots) # 0
    /\ scanner' = ScanStartResult(
                     NewFileScanner(ScanSessionId, config.roots, config.rules))
    /\ UNCHANGED <<planGenerator, executors, manager, journal, console, config,
                 scanResultsPage,
                   rejections, executionPage>>

InitSetup ==
    /\ scanner = NoFileScanner
    /\ planGenerator = NoPlanGenerator
    /\ executors = <<>>
    /\ manager = NoManager
    /\ journal = <<>>
    /\ console = <<>>
    /\ config = InitialConfig
    /\ scanResultsPage = NoScanResultsPage
    /\ rejections = <<>>
    /\ executionPage = NoExecutionPage

NextSetup ==
    \/ \E path \in RootChoices : AddRoot(path)
    \/ \E index \in 0..(MaxSetupRoots - 1) : RemoveRoot(index)
    \/ AddRule
    \/ \E index \in 0..(MaxRuleAdds - 1) : UpdateRule(index)
    \/ \E index \in 0..(MaxRuleAdds - 1) : RemoveRule(index)
    \/ ToggleSystemProtections
    \/ SetupStartScan
    \/ ScanRootDone

SpecSetup == InitSetup /\ [][NextSetup]_vars

(***************************************************************************)
(* SessionManager: the scan session and the plan sessions made from it,    *)
(* with ScanResultsPage polling the scan and starting the plans            *)
(* (SpecSessions).  The maps of sessions hold the session objects by       *)
(* value: no object is changed through a map after it was stored, but for  *)
(* the status startPlanning sets before it stores the session again.       *)
(***************************************************************************)
PlanSessionIds ==
    <<PlanSessionId, "plan-1700000003000-a1s2d3f4g", "plan-1700000004000-z9x8c7v6b">>

ScanInputRoots == {<<"C:\\A">>}
ScanInputRules == {<<>>, <<RuleSortAll>>}

\* createScanSession(roots, options)
CreateScanSession(roots) ==
    /\ ScanSessionId \notin DOMAIN manager.scanSessions
    /\ manager' = [manager EXCEPT
          !.scanSessions = MapPut(@, ScanSessionId,
              [id |-> ScanSessionId, roots |-> roots, status |-> "Created",
               progress |-> <<>>, results |-> <<>>, error |-> ""])]
    /\ UNCHANGED <<scanner, planGenerator, executors, journal, console, config,
                   scanResultsPage,
                   rejections, executionPage>>

\* lines 43-44 of sessionManager.ts, when startScan of the scanner resolved
StoreScanWhenResolved(mgr, sc) ==
    IF sc.isScanning THEN mgr
    ELSE [mgr EXCEPT !.scanSessions = MapPut(@, sc.session.id, sc.session)]

\* the error startScan(id) throws (lines 32-35), "" for none
StartScanError(mgr, id) ==
    IF id \notin DOMAIN mgr.scanSessions THEN "Scan session not found" ELSE ""

\* startScan(sessionId, rules, options), to the first delay of the scanner
\* or to its throw; one scan is started for a session
StartScan(id, rules) ==
    IF StartScanError(manager, id) # ""
    THEN /\ Len(rejections) < MaxRejections
         /\ rejections' = Append(rejections, StartScanError(manager, id))
         /\ UNCHANGED <<scanner, planGenerator, executors, manager, journal, console,
                        config, scanResultsPage, executionPage>>
    ELSE /\ id \notin DOMAIN manager.scanners
         /\ LET sc == ScanStartResult(
                         NewFileScanner(id, manager.scanSessions[id].roots, rules))
            IN  /\ scanner' = sc
                /\ manager' = StoreScanWhenResolved(
                                 [manager EXCEPT !.scanners = MapPut(@, id, TRUE)], sc)
         /\ UNCHANGED <<planGenerator, executors, journal, console, config,
                        scanResultsPage, rejections, executionPage>>

\* the delay of generateMockResults is over; when the scan ends, startScan
\* stores the scanner's session
ScanTimer ==
    /\ scanner.isScanning
    /\ \E fired \in Draws(3, ScanDrawKinds, RandomWarnings(scanner.results)) :
          LET sc == ScanRootDoneResult(scanner, fired)
          IN  /\ scanner' = sc
              /\ manager' = StoreScanWhenResolved(manager, sc)
    /\ UNCHANGED <<planGenerator, executors, journal, console, config,
                   scanResultsPage,
                   rejections, executionPage>>

\* getScanSession(id), for an id of the map
GetScanSession(id) == manager.scanSessions[id]

\* ScanResultsPage.pollSession, run when the page is shown (SetupPage goes
\* to it once it has called startScan) and again by its timer while the
\* status it read is Running
PollSession ==
    /\ ScanSessionId \in DOMAIN manager.scanners
    /\ \/ ~scanResultsPage.polled
       \/ /\ scanResultsPage.session # <<>>
          /\ scanResultsPage.session[1].status = "Running"
    /\ scanResultsPage' = [scanResultsPage EXCEPT
          !.session = <<GetScanSession(ScanSessionId)>>,
          !.isLoading = (GetScanSession(ScanSessionId).status = "Running"),
          !.polled = TRUE]
    /\ UNCHANGED <<scanner, planGenerator, executors, manager, journal, console,
                   config,
                   rejections, executionPage>>

\* the page is shown anew (useEffect runs pollSession again)
ShowScanResultsPage ==
    /\ scanResultsPage.polled
    /\ DOMAIN manager.planSessions = {}
    /\ scanResultsPage' = NoScanResultsPage
    /\ UNCHANGED <<scanner, planGenerator, executors, manager, journal, console,
                   config,
                   rejections, executionPage>>

\* the paths of the hits the page lists
ListedPaths ==
    IF scanResultsPage.session # <<>> /\ scanResultsPage.session[1].results # <<>>
    THEN {scanResultsPage.session[1].results[1][k].path :
             k \in 1..Len(scanResultsPage.session[1].results[1])}
    ELSE {}

\* toggleSelection(path), of a listed hit, before a plan is made
ToggleSelection(path) ==
    /\ path \in ListedPaths
    /\ DOMAIN manager.planSessions = {}
    /\ scanResultsPage' = [scanResultsPage EXCEPT
          !.selectedHits = IF path \in @ THEN @ \ {path} ELSE @ \cup {path}]
    /\ UNCHANGED <<scanner, planGenerator, executors, manager, journal, console,
                   config,
                   rejections, executionPage>>

\* createPlanSession(scanId, _selectedPaths): the selected paths are not
\* stored
CreatePlanSessionResult(mgr, id, scanId) ==
    [mgr EXCEPT
        !.planSessions = MapPut(@, id,
            [id |-> id, scan_id |-> scanId, status |-> "Created", plan |-> <<>>,
             error |-> ""])]

\* the error startPlanning(id) throws (lines 68-76), "" for none
StartPlanningError(mgr, id) ==
    IF id \notin DOMAIN mgr.planSessions THEN "Plan session not found"
    ELSE LET session == mgr.planSessions[id]
         IN  IF \/ session.scan_id = ""
                \/ session.scan_id \notin DOMAIN mgr.scanSessions
                \/ mgr.scanSessions[session.scan_id].results = <<>>
             THEN "Scan session or results not found"
             ELSE ""

\* startPlanning with the generator registered and the status set before
\* the scan session is looked at
StartPlanningResultRegisteringFirst(mgr, id) ==
    IF id \notin DOMAIN mgr.planSessions THEN mgr
    ELSE LET scanId == mgr.planSessions[id].scan_id
             hits == IF /\ scanId \in DOMAIN mgr.scanSessions
                        /\ mgr.scanSessions[scanId].results # <<>>
                     THEN mgr.scanSessions[scanId].results[1]
                     ELSE <<>>
         IN  [mgr EXCEPT
                !.planGenerators = MapPut(@, id,
                    [NewPlanGenerator(id, hits) EXCEPT !.session.status = "Running"]),
                !.planSessions[id].status = "Running"]

\* startPlanning(sessionId), to the delay of generatePlan; it throws, and
\* changes nothing, when the plan session or the results of its scan
\* session are missing
StartPlanningResult(mgr, id) ==
    IF StartPlanningError(mgr, id) # "" THEN mgr
    ELSE LET session == mgr.planSessions[id]
         IN  [mgr EXCEPT
                !.planGenerators = MapPut(@, id,
                    [NewPlanGenerator(id, mgr.scanSessions[session.scan_id].results[1])
                        EXCEPT !.session.status = "Running"]),
                !.planSessions[id].status = "Running"]

\* ScanResultsPage.createPlan: createPlanSession(sessionId, selectedHits),
\* then startPlanning of the new session
CreatePlan ==
    /\ scanResultsPage.selectedHits # {}
    /\ Cardinality(DOMAIN manager.planSessions) < MaxPlanSessions
    /\ LET id == PlanSessionIds[Cardinality(DOMAIN manager.planSessions) + 1]
       IN  manager' = StartPlanningResult(
                         CreatePlanSessionResult(manager, id, ScanSessionId), id)
    /\ UNCHANGED <<scanner, planGenerator, executors, journal, console, config,
                   scanResultsPage,
                   rejections, executionPage>>

\* the delay of generatePlan is over for the generator of session id;
\* startPlanning then stores the generator's session
PlanTimer(id) ==
    /\ id \in DOMAIN manager.planGenerators
    /\ manager.planGenerators[id].session.status = "Running"
    /\ LET pg == manager.planGenerators[id]
       IN  \E fired \in Draws(Len(pg.folderHits), PlanDrawKinds,
                              RandomWarnings(pg.folderHits)) :
              LET done == PlanDoneResult(pg, fired)
              IN  manager' = [manager EXCEPT
                                 !.planGenerators[id] = done,
                                 !.planSessions[id] = done.session]
    /\ UNCHANGED <<scanner, planGenerator, executors, journal, console, config,
                   scanResultsPage,
                   rejections, executionPage>>

InitSessions ==
    /\ scanner = NoFileScanner
    /\ planGenerator = NoPlanGenerator
    /\ executors = <<>>
    /\ manager = NoManager
    /\ journal = <<>>
    /\ console = <<>>
    /\ config = InitialConfig
    /\ scanResultsPage = NoScanResultsPage
    /\ rejections = <<>>
    /\ executionPage = NoExecutionPage

NextSessions ==
    \/ \E roots \in ScanInputRoots : CreateScanSession(roots)
    \/ \E rules \in ScanInputRules : StartScan(ScanSessionId, rules)
    \/ ScanTimer
    \/ PollSession
    \/ ShowScanResultsPage
    \/ \E path \in ListedPaths : ToggleSelection(path)
    \/ CreatePlan
    \/ \E k \in 1..MaxPlanSessions : PlanTimer(PlanSessionIds[k])

SpecSessions == InitSessions /\ [][NextSessions]_vars

(***************************************************************************)
(* SessionManager: the execution sessions of a completed plan, with        *)
(* cleanup (Spec).                                                         *)
(***************************************************************************)
Next ==
    \/ CreateExecutionSession(PlanSessionId)
    \/ StartExecution(ExecSessionId)
    \/ \E k \in 1..Len(executors) : ExecutorTimer(k)
    \/ CancelExecution(ExecSessionId)
    \/ \E cutoff \in CleanupCutoffs : Cleanup(cutoff)

Spec == Init /\ [][Next]_vars

(***************************************************************************)
(* SessionManager: the three kinds of sessions from their creation, each   *)
(* start operation called at any point, also before its session is made   *)
(* or before the results it needs are there (SpecStarts).  One scanner     *)
(* and one plan generator are in flight at a time.                         *)
(***************************************************************************)
\* createPlanSession(scanId, _selectedPaths)
CreatePlanSession(id, scanId) ==
    /\ id \notin DOMAIN manager.planSessions
    /\ manager' = CreatePlanSessionResult(manager, id, scanId)
    /\ UNCHANGED <<scanner, planGenerator, executors, journal, console, config,
                   scanResultsPage, rejections, executionPage>>

\* startPlanning(sessionId), to the delay of generatePlan or to its throw
StartPlanning(id) ==
    /\ StartPlanningError(manager, id) # "" => Len(rejections) < MaxRejections
    /\ StartPlanningError(manager, id) = "" => planGenerator.session.status # "Running"
    /\ manager' = StartPlanningResult(manager, id)
    /\ rejections' = IF StartPlanningError(manager, id) # ""
                     THEN Append(rejections, StartPlanningError(manager, id))
                     ELSE rejections
    /\ planGenerator' = IF StartPlanningError(manager, id) = ""
                        THEN manager'.planGenerators[id]
                        ELSE planGenerator
    /\ UNCHANGED <<scanner, executors, journal, console, config, scanResultsPage,
                   executionPage>>

\* the delay of generatePlan is over for the generator in flight;
\* startPlanning then stores the generator's session (lines 86-87)
PlanningTimer ==
    /\ planGenerator.constructed
    /\ planGenerator.session.status = "Running"
    /\ \E fired \in Draws(Len(planGenerator.folderHits), PlanDrawKinds,
                           RandomWarnings(planGenerator.folderHits)) :
          LET done == PlanDoneResult(planGenerator, fired)
              id == done.session.id
          IN  /\ planGenerator' = done
              /\ manager' = [manager EXCEPT
                    !.planSessions = MapPut(@, id, done.session),
                    !.planGenerators = IF id \in DOMAIN @ THEN MapPut(@, id, done)
                                       ELSE @]
    /\ UNCHANGED <<scanner, executors, journal, console, config, scanResultsPage,
                   rejections, executionPage>>

NextStarts ==
    \/ \E roots \in ScanInputRoots : CreateScanSession(roots)
    \/ \E rules \in ScanInputRules : StartScan(ScanSessionId, rules)
    \/ ScanTimer
    \/ CreatePlanSession(PlanSessionId, ScanSessionId)
    \/ StartPlanning(PlanSessionId)
    \/ PlanningTimer
    \/ CreateExecutionSession(PlanSessionId)
    \/ StartExecution(ExecSessionId)
    \/ \E k \in 1..Len(executors) : ExecutorTimer(k)

SpecStarts == InitSessions /\ [][NextStarts]_vars

(***************************************************************************)
(* ExecutionPage in demo mode (SpecExecutionPage): invoke rejects, and the *)
(* page shows a mock session that its timers advance.  Sizes are in KiB.   *)
(***************************************************************************)
DemoStartOps == 45
DemoTotalOps == 156
DemoTotalKiB == 1024 * 170

\* the session ids of the route /execution/:sessionId
PageSessionIds == {"execution-demo-1700000005000", ExecSessionId}

\* 10 + Math.random() * 10, as drawn low or high
DemoSpeeds == {10, 19}

\* mockExecutionSession (lines 39-54)
MockExecutionSession(sessionId) ==
    [id |-> sessionId,
     plan_id |-> "plan-demo-123",
     status |-> "Running",
     progress |-> <<[current_item |->
                        "C:\\Users\\Demo\\Documents\\Photos\\Vacation2023\\IMG_001.jpg",
                     completed_ops |-> DemoStartOps,
                     total_ops |-> DemoTotalOps,
                     bytes_processed |-> 1024 * 78,
                     total_bytes |-> DemoTotalKiB,
                     current_speed |-> <<12>>,
                     eta |-> <<8>>]>>,
     journal_path |-> "C:\\Users\\Demo\\AppData\\Local\\FileMover\\execution_journal.json",
     error |-> ""]

\* the effect of the page: pollSession, whose invoke rejects (lines 16-103)
ExecutionPagePollSession(sessionId) ==
    /\ executionPage.location = ""
    /\ executionPage' =
          IF StartsWith(sessionId, "execution-demo-")
          THEN [executionPage EXCEPT
                  !.session = <<MockExecutionSession(sessionId)>>,
                  !.progress = DemoStartOps,
                  !.interval = TRUE,
                  !.isLoading = FALSE,
                  !.location = "/execution/" \o sessionId]
          ELSE [executionPage EXCEPT
                  !.isLoading = FALSE,
                  !.location = "/execution/" \o sessionId]
    /\ UNCHANGED <<scanner, planGenerator, executors, manager, journal, console,
                   config, scanResultsPage, rejections>>

\* the callback of progressInterval (lines 59-97), with its two draws
ProgressInterval(step, speed) ==
    /\ executionPage.interval
    /\ LET progress == executionPage.progress + step
       IN  executionPage' =
              IF progress >= DemoTotalOps
              THEN [executionPage EXCEPT
                      !.progress = DemoTotalOps,
                      !.interval = FALSE,
                      !.completion = TRUE]
              ELSE [executionPage EXCEPT
                      !.progress = progress,
                      !.session =
                          IF @ = <<>> THEN @
                          ELSE <<[@[1] EXCEPT
                                  !.progress[1].completed_ops = progress,
                                  !.progress[1].bytes_processed =
                                      (progress * DemoTotalKiB) \div DemoTotalOps,
                                  !.progress[1].current_speed = <<speed>>,
                                  !.progress[1].eta =
                                      <<(DemoTotalOps - progress) \div 12>>]>>]
    /\ UNCHANGED <<scanner, planGenerator, executors, manager, journal, console,
                   config, scanResultsPage, rejections>>

\* the timeout of line 65: the execution is shown as completed
CompletionTimeout ==
    /\ executionPage.completion
    /\ executionPage' = [executionPage EXCEPT
          !.completion = FALSE,
          !.session =
              IF @ = <<>> THEN @
              ELSE <<[@[1] EXCEPT
                      !.status = "Completed",
                      !.progress[1].current_item = "",
                      !.progress[1].completed_ops = DemoTotalOps,
                      !.progress[1].current_speed = <<>>,
                      !.progress[1].eta = <<>>]>>,
          !.canCancel = FALSE,
          !.navigation = TRUE]
    /\ UNCHANGED <<scanner, planGenerator, executors, manager, journal, console,
                   config, scanResultsPage, rejections>>

\* the timeout of line 80: navigate to the results
NavigationTimeout ==
    /\ executionPage.navigation
    /\ executionPage' = [executionPage EXCEPT
          !.navigation = FALSE,
          !.location = "/results/" \o executionPage.session[1].id]
    /\ UNCHANGED <<scanner, planGenerator, executors, manager, journal, console,
                   config, scanResultsPage, rejections>>

\* the stop button is on the page (lines 174-214, 361)
CancelButtonShown ==
    /\ StartsWith(executionPage.location, "/execution/")
    /\ executionPage.session # <<>>
    /\ executionPage.session[1].status \notin {"Created", "Failed", "Cancelled"}
    /\ executionPage.canCancel

\* cancelExecution of the page, whose invoke rejects (lines 106-119)
ExecutionPageCancel ==
    /\ CancelButtonShown
    /\ executionPage' = [executionPage EXCEPT
          !.session = <<[@[1] EXCEPT !.status = "Cancelled"]>>,
          !.canCancel = FALSE]
    /\ UNCHANGED <<scanner, planGenerator, executors, manager, journal, console,
                   config, scanResultsPage, rejections>>

InitExecutionPage ==
    /\ scanner = NoFileScanner
    /\ planGenerator = NoPlanGenerator
    /\ executors = <<>>
    /\ manager = NoManager
    /\ journal = <<>>
    /\ console = <<>>
    /\ config = InitialConfig
    /\ scanResultsPage = NoScanResultsPage
    /\ rejections = <<>>
    /\ executionPage = NoExecutionPage

NextExecutionPage ==
    \/ \E sessionId \in PageSessionIds : ExecutionPagePollSession(sessionId)
    \/ \E step \in 1..5, speed \in DemoSpeeds : ProgressInterval(step, speed)
    \/ CompletionTimeout
    \/ NavigationTimeout
    \/ ExecutionPageCancel

SpecExecutionPage == InitExecutionPage /\ [][NextExecutionPage]_vars

(***************************************************************************)
(* Properties of the plans (SpecPlan).                                     *)
(***************************************************************************)
PlanReady == planGenerator.session.plan # <<>>
ThePlan == planGenerator.session.plan[1]
PlanNodeSet == {ThePlan.nodes[id] : id \in DOMAIN ThePlan.nodes}

\* p lies under q (Windows paths: letter case is not significant)
StrictDescendant(p, q) == StartsWith(ToLowerCase(p), ToLowerCase(q) \o "\\")

HasConflict(node, type) ==
    \E k \in 1..Len(node.conflicts) : node.conflicts[k].type = type

\* C7: in a generated plan no two distinct nodes of a kind other than Skip
\* have the same path_after.
C7_DistinctDestinations ==
    PlanReady =>
        \A a, b \in PlanNodeSet :
            (a.id # b.id /\ a.kind # "Skip" /\ b.kind # "Skip")
                => a.path_after # b.path_after

\* C8: in a generated plan the path_after of a node whose kind is neither
\* Skip nor None is not a strict descendant of its path_before.
C8_NoSelfContainment ==
    PlanReady =>
        \A n \in PlanNodeSet :
            n.kind \notin {"Skip", "None"}
                => ~StrictDescendant(n.path_after, n.path_before)

\* C9: a node of a generated plan that carries a DestInsideSource conflict
\* has kind Skip.
C9_DestInsideSourceIsSkip ==
    PlanReady =>
        \A n \in PlanNodeSet : HasConflict(n, "DestInsideSource") => n.kind = "Skip"

\* C9's case: a plan holds a node with a DestInsideSource conflict
C9_Witness ==
    PlanReady /\ \E n \in PlanNodeSet : HasConflict(n, "DestInsideSource")

\* C10: in a generated plan, two nodes each of whose path_after is inside the
\* other's path_before are both Skip and both carry CycleDetected (so no such
\* pair has both kinds other than Skip).
C10_NoCyclePair ==
    PlanReady =>
        \A a, b \in PlanNodeSet :
            (a.id # b.id /\ StrictDescendant(a.path_after, b.path_before)
                         /\ StrictDescendant(b.path_after, a.path_before))
                => /\ a.kind = "Skip" /\ b.kind = "Skip"
                   /\ HasConflict(a, "CycleDetected")
                   /\ HasConflict(b, "CycleDetected")

(***************************************************************************)
(* Properties of an execution (SpecExec).                                  *)
(***************************************************************************)
Executors == {executors[k] : k \in 1..Len(executors)}

HasProgress(e) == e.session.progress # <<>>
CurrentItem(e) == IF HasProgress(e) THEN e.session.progress[1].current_item ELSE ""
CompletedOps(e) == IF HasProgress(e) THEN e.session.progress[1].completed_ops ELSE 0
BytesProcessed(e) == IF HasProgress(e) THEN e.session.progress[1].bytes_processed ELSE 0

SkippedNodes(plan) ==
    {n \in {plan.nodes[id] : id \in DOMAIN plan.nodes} : n.kind \in {"Skip", "None"}}

\* C1: the executor performs no operation on a path under a root node whose
\* kind is Skip or None: no such path ever is current_item.
C1_SkipNodesUntouched ==
    \A e \in Executors :
        \A n \in SkippedNodes(e.plan) :
            ~StartsWith(CurrentItem(e), n.path_before \o "\\")

\* C2: every operation counted in completed_ops has a Pending attempt record
\* in the journal, written before it was counted.
C2_JournalBeforeEffect ==
    \A e \in Executors :
        Cardinality({k \in 1..Len(journal) : journal[k].result = "Pending"})
            >= CompletedOps(e)

\* C4: once cancel() has been called the executor starts no operation:
\* current_item stays as it is and no new delay is awaited.
C4_NoStartAfterCancel ==
    [][\A k \in 1..Len(executors) :
          executors[k].isCancelled =>
              /\ CurrentItem(executors'[k]) = CurrentItem(executors[k])
              /\ executors'[k].awaiting => (executors[k].awaiting
                                            /\ executors'[k].i = executors[k].i)]_vars

\* C4's case: an execution was cancelled with operations left, and has ended
C4_Witness ==
    \E e \in Executors :
        /\ e.isCancelled /\ e.session.status = "Cancelled"
        /\ CompletedOps(e) >= 1
        /\ e.i + 1 < OperationCount(e)

\* C5: an execution that ends Cancelled has counted the operation that was in
\* flight when cancel was signalled (operations[i], the current_item).
C5_InFlightCompletes ==
    \A e \in Executors :
        (e.session.status = "Cancelled" /\ CurrentItem(e) # "")
            => CompletedOps(e) = e.i + 1

AppliedNodes(plan) ==
    {n \in {plan.nodes[id] : id \in DOMAIN plan.nodes} : n.kind \notin {"Skip", "None"}}

\* C6: an execution in which an operation of a node that is not Skip failed
\* (the simulated failure of line 502) does not end Completed.
C6_FailureNotCompleted ==
    \A e \in Executors :
        (\E k \in 1..Len(console), n \in AppliedNodes(e.plan) :
            StartsWith(console[k],
                       "Simulated failure for operation: " \o n.path_before \o "\\"))
            => e.session.status # "Completed"

(***************************************************************************)
(* Properties of the execution sessions (Spec).                            *)
(***************************************************************************)
\* cancel() reached an executor while it was running: it is cancelled and
\* waits for its delay, or it ended before counting all its operations
CancelledWhileRunning ==
    \E e \in Executors :
        e.isCancelled /\ (e.awaiting \/ e.completedOps < OperationCount(e))

AllResolved == \A e \in Executors : ~e.awaiting

\* C3: when cancelExecution was called while an execution of the session was
\* running and every startExecution has resolved, the status of the session
\* is Cancelled.
C3_CancelledAtTheEnd ==
    (ExecSessionId \in DOMAIN manager.executionSessions
        /\ CancelledWhileRunning /\ AllResolved)
        => GetExecutionSession(ExecSessionId).status = "Cancelled"

(***************************************************************************)
(* Properties of the matcher and of the scan (SpecSetup, SpecPlan).        *)
(***************************************************************************)
ScanCompleted == scanner.session.status = "Completed"
ScanResults == scanner.session.results[1]
ScanHits == {ScanResults[k] : k \in 1..Len(ScanResults)}
ScanRules == {scanner.rules[i] : i \in 1..Len(scanner.rules)}

\* the pattern of the rule matches the name, whatever is_exclude says
PatternMatches(name, rule) ==
    MatchesPattern(name, [rule EXCEPT !.pattern.is_exclude = FALSE])

\* C11: in a completed scan, a folder whose name matches the pattern of an
\* enabled exclude rule has no matched rule and no dest_preview, and no
\* exclude rule is the matched rule of a hit.
C11_ExcludeShortCircuits ==
    ScanCompleted =>
        \A hit \in ScanHits :
            /\ (\E r \in ScanRules :
                    r.enabled /\ r.pattern.is_exclude /\ PatternMatches(hit.name, r))
                  => (hit.matched_rule = "" /\ hit.dest_preview = "")
            /\ \A r \in ScanRules : r.pattern.is_exclude => hit.matched_rule # r.id

\* C12: every hit of a completed scan has matched_rule and dest_preview
\* defined.
C12_HitsAreMatched ==
    ScanCompleted =>
        \A hit \in ScanHits : hit.matched_rule # "" /\ hit.dest_preview # ""

\* the enabled inclusive rules whose pattern matches the name
Candidates(rules, name) ==
    {i \in 1..Len(rules) :
        /\ rules[i].enabled /\ ~rules[i].pattern.is_exclude
        /\ PatternMatches(name, rules[i])}

\* C13: in a completed scan with inclusive rules only, the matched rule of a
\* hit is the candidate with the smallest priority, the first declared among
\* equals.
C13_SmallestPriorityWins ==
    (ScanCompleted /\ \A r \in ScanRules : ~r.pattern.is_exclude) =>
        \A hit \in ScanHits :
            LET cands == Candidates(scanner.rules, hit.name)
            IN  cands # {} =>
                   \E i \in cands :
                      /\ hit.matched_rule = scanner.rules[i].id
                      /\ \A j \in cands :
                            \/ scanner.rules[i].priority < scanner.rules[j].priority
                            \/ /\ scanner.rules[i].priority = scanner.rules[j].priority
                               /\ i <= j

\* the names of the folders the scans of the roots a user can give find
FixedFolderNames ==
    UNION {{GenerateRealisticFolders(root)[k].name : k \in 1..3} : root \in RootChoices}

\* the number of folders that receive a matched rule
MatchCount(rules) ==
    Cardinality({name \in FixedFolderNames : FindMatchingRule(rules, name) # 0})

C15_InvalidRegexFailsScan ==
    (\E r \in ScanRules :
        /\ r.enabled /\ r.pattern.kind = "Regex"
        /\ RegExpThrows(IF r.pattern.case_insensitive
                        THEN ToLowerCase(r.pattern.value) ELSE r.pattern.value))
        => ~ScanCompleted

\* the directories a scan with system_protections refuses
ProtectedDirectories ==
    {"C:\\Windows", "C:\\Program Files", "C:\\Program Files (x86)"}

InsideDirectory(path, dir) ==
    \/ ToLowerCase(path) = ToLowerCase(dir)
    \/ StartsWith(ToLowerCase(path), ToLowerCase(dir) \o "\\")

\* C19: a completed scan started with system_protections on has no hit
\* inside a protected directory, and no hit under an entry of excluded_paths.
C19_RefusedDirectoriesEmitNoHit ==
    (ScanCompleted /\ config.options.system_protections) =>
        \A hit \in ScanHits :
            /\ \A dir \in ProtectedDirectories : ~InsideDirectory(hit.path, dir)
            /\ \A k \in 1..Len(config.options.excluded_paths) :
                  ~StartsWith(hit.path, config.options.excluded_paths[k])

(***************************************************************************)
(* Properties of the classification (SpecPlan).                            *)
(***************************************************************************)
ParentDirectory(path) == Substring0(path, LastIndexOf(path, "\\"))

\* the share of a UNC path: \\server\share
UncShare(path) ==
    LET rest == SubSeq(path, 3, Len(path))
        server == SplitFirst(rest, "\\")
        after == SubSeq(rest, Len(server) + 2, Len(rest))
    IN  "\\\\" \o server \o "\\" \o SplitFirst(after, "\\")

\* the volume root of a path: its drive, or the share of a UNC path
VolumeRoot(path) ==
    IF DriveLetter(path) # "" THEN ToLowerCase(DriveLetter(path)) \o ":"
    ELSE IF StartsWith(path, "\\\\") THEN ToLowerCase(UncShare(path))
    ELSE ""

\* the kind of a node that has a destination and is not forced to Skip
ClassifiedKind(n) ==
    IF /\ ToLowerCase(ParentDirectory(n.path_before))
            = ToLowerCase(ParentDirectory(n.path_after))
       /\ ToLowerCase(n.path_before) # ToLowerCase(n.path_after)
    THEN "Rename"
    ELSE IF VolumeRoot(n.path_before) = VolumeRoot(n.path_after) THEN "Move"
    ELSE "CopyDelete"

\* C18: in a generated plan, a node that is not Skip is Rename when source
\* and destination have the same parent directory and differ, else Move when
\* they are on the same volume root, else CopyDelete.
C18_Classification ==
    PlanReady =>
        \A n \in PlanNodeSet : n.kind # "Skip" => n.kind = ClassifiedKind(n)

(***************************************************************************)
(* Properties of the scan and plan sessions (SpecSessions).                *)
(***************************************************************************)
CompletedPlans ==
    {manager.planSessions[id].plan[1] :
        id \in {x \in DOMAIN manager.planSessions :
                   manager.planSessions[x].status = "Completed"}}

\* C16: the plans generated from the hits of one scan are the same plan.
C16_PlansAgree ==
    \A a \in CompletedPlans, b \in CompletedPlans : a = b

RootPaths(plan) == {plan.nodes[plan.roots[k]].path_before : k \in 1..Len(plan.roots)}

\* C17: a plan made by createPlan has a root node for a path exactly when the
\* path is one of the selected hits.
C17_PlanOfSelection ==
    \A plan \in CompletedPlans : RootPaths(plan) = scanResultsPage.selectedHits

\* the poller has read a status other than Running and polls no more
PollerStopped ==
    /\ scanResultsPage.polled
    /\ scanResultsPage.session # <<>>
    /\ scanResultsPage.session[1].status # "Running"

\* C20: between the call of startScan and its resolution getScanSession
\* gives the status Running, and a poller of a started scan that has stopped
\* has read Completed with the results.
C20_PollerSeesCompleted ==
    /\ (ScanSessionId \in DOMAIN manager.scanners /\ scanner.isScanning)
          => GetScanSession(ScanSessionId).status = "Running"
    /\ PollerStopped =>
          /\ scanResultsPage.session[1].status = "Completed"
          /\ scanResultsPage.session[1].results # <<>>

(***************************************************************************)
(* Properties of the kinds and the conflicts of a plan (SpecPlan).         *)
(***************************************************************************)
\* C21: in a generated plan, a node with conflicts is Skip, and a node with a
\* destination, without AccessDenied warning and without conflicts is not
\* Skip.
C21_KindAgreesWithConflicts ==
    PlanReady =>
        \A k \in 1..Len(ThePlan.roots) :
            LET n == ThePlan.nodes[ThePlan.roots[k]]
                hit == planGenerator.folderHits[k]
            IN  /\ Len(n.conflicts) > 0 => n.kind = "Skip"
                /\ (/\ hit.dest_preview # ""
                    /\ ~SeqIncludes(n.warnings, "AccessDenied")
                    /\ Len(n.conflicts) = 0)
                      => n.kind # "Skip"

(***************************************************************************)
(* Properties of the execution sessions of the SessionManager (Spec).      *)
(***************************************************************************)
TerminalStatuses == {"Completed", "Failed"}

\* C23: once getExecutionSession(id) reports Completed or Failed, no step of
\* the session manager changes the status it reports.
C23_TerminalStatusIsAbsorbing ==
    [][\A id \in DOMAIN manager.executionSessions :
          GetExecutionSession(id).status \in TerminalStatuses
            => /\ id \in DOMAIN manager'.executionSessions
               /\ GetExecutionSession(id)'.status = GetExecutionSession(id).status]_vars

(***************************************************************************)
(* Properties of the progress records.                                     *)
(***************************************************************************)
\* C24: whenever the session of the FileScanner or of a FileExecutor has a
\* progress record, its completed_ops is at most its total_ops.
C24_CompletedAtMostTotal ==
    /\ scanner.session.progress # <<>> =>
          scanner.session.progress[1].completed_ops
              <= scanner.session.progress[1].total_ops
    /\ \A e \in Executors :
          HasProgress(e) =>
              e.session.progress[1].completed_ops <= e.session.progress[1].total_ops

\* C25: from one state of an execution to the next, neither completed_ops
\* nor bytes_processed of its progress decreases, the step to Completed
\* included.
C25_ProgressNeverDecreases ==
    [][\A k \in 1..Len(executors) :
          /\ CompletedOps(executors'[k]) >= CompletedOps(executors[k])
          /\ BytesProcessed(executors'[k]) >= BytesProcessed(executors[k])]_vars

(***************************************************************************)
(* Properties of the executors of one execution session (Spec).            *)
(***************************************************************************)
\* the executors startExecution(id) has made
ExecutorsOf(id) == {k \in 1..Len(executors) : executors[k].session.id = id}

\* C26: for every execution session id, at most one FileExecutor is waiting
\* for an operation, and startExecution has started at most one run.
C26_OneExecutorPerSession ==
    \A id \in DOMAIN manager.executionSessions :
        /\ Cardinality({k \in ExecutorsOf(id) : executors[k].awaiting}) <= 1
        /\ Cardinality(ExecutorsOf(id)) <= 1

(***************************************************************************)
(* Properties of cleanup (Spec).                                           *)
(***************************************************************************)
\* C27: an execution session that createExecutionSession made and cleanup
\* removed from the map of sessions is not in the map again after any step.
C27_CleanedUpStaysRemoved ==
    [][\A id \in DOMAIN manager.created :
          id \notin DOMAIN manager.executionSessions
            => id \notin DOMAIN manager'.executionSessions]_vars

(***************************************************************************)
(* What the start operations keep of a session.                            *)
(***************************************************************************)
\* startPlanning(id) has resolved for the plan generator of id
PlanningResolved(id) ==
    /\ id \in DOMAIN manager.planGenerators
    /\ id \in DOMAIN manager.planSessions
    /\ manager.planGenerators[id].session.status = "Completed"
    /\ manager.planSessions[id].status = "Completed"

\* startExecution(id) has resolved and stored the session of its executor
ExecutionResolved(id) ==
    /\ id \in DOMAIN manager.executionSessions
    /\ manager.executionSessions[id] > 0

\* C28: after startPlanning(id) has resolved, getPlanSession(id) has the id
\* and the scan_id createPlanSession gave it; after startExecution(id) has
\* resolved, getExecutionSession(id) has the id and the plan_id
\* createExecutionSession gave it.
C28_StartKeepsIdentity ==
    /\ \A id \in DOMAIN manager.planSessions :
          PlanningResolved(id) =>
              /\ manager.planSessions[id].id = id
              /\ manager.planSessions[id].scan_id = ScanSessionId
    /\ \A id \in DOMAIN manager.executionSessions :
          ExecutionResolved(id) =>
              /\ GetExecutionSession(id).id = id
              /\ GetExecutionSession(id).plan_id = manager.created[id].plan_id

(***************************************************************************)
(* Properties of the start operations that throw (SpecStarts).             *)
(***************************************************************************)
\* the plan generators a step has registered or replaced
NewPlanGenerators ==
    {id \in DOMAIN manager'.planGenerators :
        \/ id \notin DOMAIN manager.planGenerators
        \/ /\ manager'.planGenerators[id].session.status = "Running"
           /\ manager.planGenerators[id].session.status # "Running"}

\* C29: a step in which startScan, startPlanning or startExecution rejects
\* changes no session, scanner, plan generator or executor; and a step
\* registers a scanner, a plan generator or an executor for an id only when
\* the start operation of that id has no error to throw.
C29_RejectionChangesNothing ==
    [][/\ rejections' # rejections =>
             /\ manager' = manager
             /\ executors' = executors
             /\ scanner' = scanner
             /\ planGenerator' = planGenerator
       /\ \A id \in NewPlanGenerators : StartPlanningError(manager, id) = ""
       /\ \A id \in (DOMAIN manager'.scanners) \ (DOMAIN manager.scanners) :
             StartScanError(manager, id) = ""
       /\ Len(executors') > Len(executors) =>
             StartExecutionError(manager, executors'[Len(executors')].session.id) = ""
      ]_vars

\* startPlanning was rejected for a plan session whose scan was running
C29_Witness ==
    /\ rejections = <<"Scan session or results not found">>
    /\ PlanSessionId \in DOMAIN manager.planSessions
    /\ manager.planSessions[PlanSessionId].status = "Created"
    /\ ScanSessionId \in DOMAIN manager.scanSessions
    /\ scanner.isScanning
    /\ PlanSessionId \notin DOMAIN manager.planGenerators

(***************************************************************************)
(* Termination of an execution (SpecExecFair).                             *)
(***************************************************************************)
EndStatuses == {"Completed", "Cancelled", "Failed"}

\* C30: when the timers fire, an execution that is Running reaches
\* Completed, Cancelled or Failed, whenever cancel() is called or not; and
\* the first timer that fires for a cancelled executor ends the execution as
\* Cancelled.
C30_ExecutionTerminates ==
    /\ (executors[1].session.status = "Running")
          ~> (executors[1].session.status \in EndStatuses)
    /\ [][(/\ executors[1].isCancelled
           /\ executors[1].awaiting
           /\ executors'[1] # executors[1])
            => /\ executors'[1].session.status = "Cancelled"
               /\ ~executors'[1].awaiting]_vars

\* an execution of five operations or more has run to its end
C30_Witness ==
    /\ executors[1].session.status = "Completed"
    /\ ~executors[1].isCancelled
    /\ executors[1].i = OperationCount(executors[1])
    /\ executors[1].i >= 5

(***************************************************************************)
(* Properties of ExecutionPage in demo mode (SpecExecutionPage).           *)
(***************************************************************************)
\* C22: once the page shows the session as Cancelled, no step changes the
\* session it shows (its status and its progress) or the route.
C22_CancelledStaysCancelled ==
    [][(/\ executionPage.session # <<>>
        /\ executionPage.session[1].status = "Cancelled")
         => /\ executionPage'.session = executionPage.session
            /\ executionPage'.location = executionPage.location]_vars

====
